---- MODULE Spec2Model ----
(***************************************************************************)
(* A model of two layers of the dll library:                               *)
(*   - conv_layer      (include/dll/neural/conv_layer.inl)                 *)
(*   - dyn_lcn_layer   (include/dll/transform/dyn_lcn_layer.inl)           *)
(* Tensors are records [shape, data] with row-major data, as ETL stores    *)
(* them.  Element values are integers: the weight type (float/double) is   *)
(* modelled on its integer points.                                         *)
(***************************************************************************)
EXTENDS Integers, Sequences, FiniteSets, TLC

VARIABLES
    \* conv_layer and its training context
    desc,       \* the descriptor (template parameters) of the layer
    w, b,       \* the layer's weights and biases
    context,    \* the layer's sgd_context
    one_out,    \* the caller's output buffer of activate_hidden
    back_out,   \* the caller's output buffer of backward_batch
    op,         \* the last operation called on the layer
    calls       \* the number of operations called so far

VARIABLES
    \* the compile-time constants of a conv_layer instantiation
    sz_desc,    \* the descriptor instantiated
    sz          \* the constants evaluated from it (Null before)

VARIABLES
    \* dyn_lcn_layer and its callers' buffers
    K, Mid, sigma,  \* the layer's fields
    lcn_status,     \* "ok", or the assertion of init_layer that failed
    lcn_arg,        \* the argument of the last init_layer call
    lcn_w,          \* the kernel returned by the last filter call
    lcn_x, lcn_y,   \* the input and output buffer of the last activate_hidden
    lcn_prev,       \* whether the call before it was an activate_hidden of lcn_x
    lcn_bx, lcn_by, \* the input and output of the last batch_activate_hidden
    lcn_op,         \* the last operation called on the layer
    lcn_calls       \* the number of operations called so far

lcnVars == <<K, Mid, sigma, lcn_status, lcn_arg, lcn_w, lcn_x, lcn_y, lcn_prev, lcn_bx, lcn_by,
             lcn_op, lcn_calls>>
VARIABLES
    \* a training driver over a stack of conv_layers
    d_layers,   \* per layer: its descriptor, weights and biases
    d_ctx,      \* per layer: its sgd_context
    d_pc,       \* the driver's position: [at, layer]
    d_phase,    \* per layer: the last operation done on it in this step
    d_back,     \* the driver's buffer for the first layer's backward_batch
    d_step      \* the number of training steps started

drvVars == <<d_layers, d_ctx, d_pc, d_phase, d_back, d_step>>
convVars == <<desc, w, b, context, one_out, back_out, op, calls>>
szVars == <<sz_desc, sz>>
vars == <<convVars, szVars, lcnVars, drvVars>>
notConv == <<szVars, lcnVars, drvVars>>
notSizes == <<convVars, lcnVars, drvVars>>
notLcn == <<convVars, szVars, drvVars>>
notDrv == <<convVars, szVars, lcnVars>>

(***************************************************************************)
(* Bounds of the model.                                                    *)
(***************************************************************************)
MaxDim == 3
MaxSeed == 1
MaxKernel == 5
MaxSteps == 2
MaxCalls == 4
NLayers == 2
LcnMaxCalls == 3

(***************************************************************************)
(* size_t values.  size_t arithmetic is arithmetic modulo 2^64; a value is *)
(* written as the integer of least absolute value congruent to it, so      *)
(* that +, - and * on size_t are +, - and * on these integers: a value     *)
(* below 2^63 is written as itself and 2^64 - n as -n.  Every dimension    *)
(* and size the layers are instantiated with here is far below 2^63.       *)
(***************************************************************************)

(***************************************************************************)
(* Tensors.                                                                *)
(***************************************************************************)
RECURSIVE Prod(_)
Prod(s) == IF Len(s) = 0 THEN 1 ELSE Head(s) * Prod(Tail(s))

\* The sum of the first n elements of the sequence q.
RECURSIVE SumSeq(_, _)
SumSeq(q, n) == IF n = 0 THEN 0 ELSE q[n] + SumSeq(q, n - 1)

\* The sum of F(i) for i in lo..hi (0 when the range is empty).
SumRange(lo, hi, F(_)) ==
    IF lo > hi THEN 0
    ELSE SumSeq([i \in 1..(hi - lo + 1) |-> F(lo + i - 1)], hi - lo + 1)

Max2(x, y) == IF x >= y THEN x ELSE y
Min2(x, y) == IF x <= y THEN x ELSE y

\* Row-major offset (1-based) of the index tuple i (1-based) in shape s, for
\* the ranks the layers use (1 to 4).
Offset(s, i) ==
    CASE Len(s) = 4 -> (((i[1] - 1) * s[2] + (i[2] - 1)) * s[3] + (i[3] - 1)) * s[4] + i[4]
      [] Len(s) = 3 -> ((i[1] - 1) * s[2] + (i[2] - 1)) * s[3] + i[3]
      [] Len(s) = 2 -> (i[1] - 1) * s[2] + i[2]
      [] Len(s) = 1 -> i[1]

\* The index tuple of the n-th (1-based) element of shape s.
Unflatten(s, n) ==
    CASE Len(s) = 4 -> <<((n - 1) \div (s[2] * s[3] * s[4])) + 1,
                         (((n - 1) \div (s[3] * s[4])) % s[2]) + 1,
                         (((n - 1) \div s[4]) % s[3]) + 1,
                         ((n - 1) % s[4]) + 1>>
      [] Len(s) = 3 -> <<((n - 1) \div (s[2] * s[3])) + 1,
                         (((n - 1) \div s[3]) % s[2]) + 1,
                         ((n - 1) % s[3]) + 1>>
      [] Len(s) = 2 -> <<((n - 1) \div s[2]) + 1, ((n - 1) % s[2]) + 1>>
      [] Len(s) = 1 -> <<n>>

At(t, idx) == t.data[Offset(t.shape, idx)]

Mk(s, F(_)) == [shape |-> s, data |-> [n \in 1..Prod(s) |-> F(Unflatten(s, n))]]

Null == [shape |-> << >>, data |-> << >>]

\* A tensor filled with one value (the ETL constructor taking a scalar).
Fill(s, v) == Mk(s, LAMBDA i : v)

\* Input data supplied by the caller: a small family of tensors of a shape,
\* with elements in -1..1.
Gen(s, seed) ==
    Mk(s, LAMBDA i : LET n == Offset(s, i)
                     IN  ((((n + seed) * (n + 2 * seed + 1)) % 7) % 3) - 1)

\* etl sub-view t(k): the k-th (1-based) slice along the first dimension.
Sub(t, k) ==
    LET s == Tail(t.shape)
        n == Prod(s)
    IN  [shape |-> s, data |-> [m \in 1..n |-> t.data[(k - 1) * n + m]]]

\* etl::reshape: same data, other shape.
Reshape(t, s) == [shape |-> s, data |-> t.data]

(***************************************************************************)
(* The numeric backend (ETL), on integer tensors.                          *)
(***************************************************************************)

\* etl::ml::convolution_forward(v, w): v is [B, NC, NV1, NV2], w is
\* [K, NC, NW1, NW2]; the result is the valid cross-correlation,
\* [B, K, NV1 - NW1 + 1, NV2 - NW2 + 1].
convolution_forward(v, wt) ==
    LET B == v.shape[1]
        C == v.shape[2]
        NK == wt.shape[1]
        P == wt.shape[3]
        Q == wt.shape[4]
        s == <<B, NK, v.shape[3] - P + 1, v.shape[4] - Q + 1>>
    IN  Mk(s, LAMBDA i :
            SumRange(1, C, LAMBDA c :
              SumRange(1, P, LAMBDA p :
                SumRange(1, Q, LAMBDA q :
                  At(v, <<i[1], c, i[3] + p - 1, i[4] + q - 1>>)
                    * At(wt, <<i[2], c, p, q>>)))))

\* etl::ml::convolution_backward(e, w): e is [B, K, NH1, NH2]; the result is
\* the gradient with respect to the input of the forward pass (a full
\* convolution), [B, NC, NH1 + NW1 - 1, NH2 + NW2 - 1].
convolution_backward(e, wt) ==
    LET B == e.shape[1]
        NK == wt.shape[1]
        C == wt.shape[2]
        P == wt.shape[3]
        Q == wt.shape[4]
        H1 == e.shape[3]
        H2 == e.shape[4]
        s == <<B, C, H1 + P - 1, H2 + Q - 1>>
    IN  Mk(s, LAMBDA i :
            SumRange(1, NK, LAMBDA k :
              SumRange(Max2(1, i[3] - H1 + 1), Min2(P, i[3]), LAMBDA p :
                SumRange(Max2(1, i[4] - H2 + 1), Min2(Q, i[4]), LAMBDA q :
                  At(e, <<i[1], k, i[3] - p + 1, i[4] - q + 1>>)
                    * At(wt, <<k, i[2], p, q>>)))))

\* etl::ml::convolution_backward_filter(x, e): x is [B, NC, NV1, NV2], e is
\* [B, K, NH1, NH2]; the result is the gradient with respect to the kernels,
\* [K, NC, NV1 - NH1 + 1, NV2 - NH2 + 1].
convolution_backward_filter(x, e) ==
    LET B == x.shape[1]
        C == x.shape[2]
        NK == e.shape[2]
        H1 == e.shape[3]
        H2 == e.shape[4]
        s == <<NK, C, x.shape[3] - H1 + 1, x.shape[4] - H2 + 1>>
    IN  Mk(s, LAMBDA i :
            SumRange(1, B, LAMBDA bb :
              SumRange(1, H1, LAMBDA m :
                SumRange(1, H2, LAMBDA n :
                  At(x, <<bb, i[2], m + i[3] - 1, n + i[4] - 1>>)
                    * At(e, <<bb, i[1], m, n>>)))))

\* etl::bias_add_4d(x, b): x is [B, K, H1, H2], b is [K].
bias_add_4d(x, bs) == Mk(x.shape, LAMBDA i : At(x, i) + At(bs, <<i[2]>>))

\* etl::bias_batch_sum_4d(e): e is [B, K, H1, H2]; the result is [K].
bias_batch_sum_4d(e) ==
    Mk(<<e.shape[2]>>, LAMBDA i :
        SumRange(1, e.shape[1], LAMBDA bb :
          SumRange(1, e.shape[3], LAMBDA m :
            SumRange(1, e.shape[4], LAMBDA n : At(e, <<bb, i[1], m, n>>)))))

\* etl::rep<D1, D2>(b): b is [K]; the result is [K, D1, D2].
rep(bs, D1, D2) == Mk(<<bs.shape[1], D1, D2>>, LAMBDA i : At(bs, <<i[1]>>))

\* Elementwise a + bs and a >> bs (ETL's elementwise product) of equal shapes.
EAdd(a, bs) == [shape |-> a.shape, data |-> [n \in DOMAIN a.data |-> a.data[n] + bs.data[n]]]
EMul(a, bs) == [shape |-> a.shape, data |-> [n \in DOMAIN a.data |-> a.data[n] * bs.data[n]]]

(***************************************************************************)
(* The activation function table (dll::function, f_activate,               *)
(* f_derivative).  Values are integers: the sigmoid, tanh and softmax      *)
(* outputs are rounded to the nearest integer; the derivatives are the     *)
(* library's formulas in terms of the output.                              *)
(***************************************************************************)
Functions == {"IDENTITY", "SIGMOID", "TANH", "RELU", "SOFTMAX"}

Sign(x) == IF x > 0 THEN 1 ELSE IF x < 0 THEN -1 ELSE 0

f_activate(F, t) ==
    [shape |-> t.shape,
     data |-> [n \in DOMAIN t.data |->
        LET x == t.data[n] IN
        CASE F = "IDENTITY" -> x
          [] F = "SIGMOID"  -> IF x > 0 THEN 1 ELSE 0
          [] F = "TANH"     -> Sign(x)
          [] F = "RELU"     -> Max2(x, 0)
          [] F = "SOFTMAX"  -> IF \A m \in DOMAIN t.data : m # n => t.data[m] < x
                               THEN 1 ELSE 0]]

f_derivative(F, t) ==
    [shape |-> t.shape,
     data |-> [n \in DOMAIN t.data |->
        LET o == t.data[n] IN
        CASE F = "IDENTITY" -> 1
          [] F = "SIGMOID"  -> o * (1 - o)
          [] F = "TANH"     -> 1 - o * o
          [] F = "RELU"     -> IF o > 0 THEN 1 ELSE 0
          [] F = "SOFTMAX"  -> 1]]

(***************************************************************************)
(* conv_layer<Desc>.  A descriptor d is a record                           *)
(* [NV1, NV2, NW1, NW2, NC, K, activation_function, batch_size].           *)
(***************************************************************************)
\* A variant of NH1 that forgets the + 1.
NH1_no_plus_one(d) == d.NV1 - d.NW1

NH1(d) == d.NV1 - d.NW1 + 1
NH2(d) == d.NV2 - d.NW2 + 1

input_size(d) == d.NC * d.NV1 * d.NV2

output_size(d) == d.K * NH1(d) * NH2(d)

parameters(d) == d.K * d.NW1 * d.NW2

w_type(d) == <<d.K, d.NC, d.NW1, d.NW2>>
b_type(d) == <<d.K>>
input_one_t(d) == <<d.NC, d.NV1, d.NV2>>
output_one_t(d) == <<d.K, NH1(d), NH2(d)>>
input_batch_t(d) == <<d.batch_size, d.NC, d.NV1, d.NV2>>
output_batch_t(d) == <<d.batch_size, d.K, NH1(d), NH2(d)>>

\* activate_hidden(output, v): one sample v of shape [NC, NV1, NV2]; the value
\* assigned to output, of shape [K, NH1, NH2].
activate_hidden(d, wt, bs, v) ==
    LET b_rep == rep(bs, NH1(d), NH2(d))
        conv == Reshape(convolution_forward(Reshape(v, <<1, d.NC, d.NV1, d.NV2>>), wt),
                        output_one_t(d))
    IN  f_activate(d.activation_function, EAdd(b_rep, conv))

\* batch_activate_hidden(output, v) for a 4-D batch v.
batch_activate_hidden_4(d, wt, bs, v) ==
    f_activate(d.activation_function, bias_add_4d(convolution_forward(v, wt), bs))

\* batch_activate_hidden(output, v) for a flattened 2-D batch v.
batch_activate_hidden_2(d, wt, bs, v) ==
    f_activate(d.activation_function,
               bias_add_4d(convolution_forward(
                   Reshape(v, <<v.shape[1], d.NC, d.NV1, d.NV2>>), wt), bs))

\* A variant of adapt_errors that takes the derivative at the errors instead of
\* the output.
adapt_errors_at_errors(d, ctx) ==
    IF d.activation_function # "IDENTITY"
    THEN [ctx EXCEPT !.errors =
            EMul(f_derivative(d.activation_function, ctx.errors), ctx.errors)]
    ELSE ctx

\* adapt_errors(context): the context after the call.
adapt_errors(d, ctx) ==
    IF d.activation_function # "IDENTITY"
    THEN [ctx EXCEPT !.errors =
            EMul(f_derivative(d.activation_function, ctx.output), ctx.errors)]
    ELSE ctx

\* backward_batch(output, context): the value assigned to output.
backward_batch(d, wt, ctx) == convolution_backward(ctx.errors, wt)

\* A variant of compute_gradients that sums the errors per sample instead of
\* per filter.
compute_gradients_per_sample(d, ctx) ==
    [ctx EXCEPT !.w_grad = convolution_backward_filter(ctx.input, ctx.errors),
                !.b_grad = Mk(<<ctx.errors.shape[1]>>, LAMBDA i :
                              SumSeq(Sub(ctx.errors, i[1]).data,
                                     Len(Sub(ctx.errors, i[1]).data)))]

\* A variant of compute_gradients that also accumulates the increments.
compute_gradients_updates_inc(d, ctx) ==
    [ctx EXCEPT !.w_grad = convolution_backward_filter(ctx.input, ctx.errors),
                !.b_grad = bias_batch_sum_4d(ctx.errors),
                !.b_inc = EAdd(ctx.b_inc, bias_batch_sum_4d(ctx.errors))]

\* compute_gradients(context): the context after the call.
compute_gradients(d, ctx) ==
    [ctx EXCEPT !.w_grad = convolution_backward_filter(ctx.input, ctx.errors),
                    !.b_grad = bias_batch_sum_4d(ctx.errors)]

\* sgd_context<DBN, conv_layer<Desc>, L>: the context after construction.
\* w_grad, b_grad and input are default-constructed: their shapes are fixed by
\* the type, their elements are whatever the build leaves there (g).
sgd_context(d, g) ==
    [w_grad |-> Gen(w_type(d), g),
     b_grad |-> Gen(b_type(d), g),
     w_inc  |-> Fill(w_type(d), 0),
     b_inc  |-> Fill(b_type(d), 0),
     input  |-> Gen(input_batch_t(d), g),
     output |-> Fill(output_batch_t(d), 0),
     errors |-> Fill(output_batch_t(d), 0)]

(***************************************************************************)
(* dyn_lcn_layer<Desc>.                                                    *)
(***************************************************************************)

\* Whether K and Mid are values for which the kernel and the normalisation
\* are evaluated here.  For the others (Beyond, below) the results are kept
\* as terms: the kernel of these K, Mid and sigma, the normalisation of this
\* input under that kernel.
Evaluated(k, mid) == k <= MaxKernel /\ mid <= MaxKernel

\* lcn_filter(w, K, Mid, sigma) (lcn.hpp): a K x K kernel that falls off with
\* the distance to the centre Mid, the faster the smaller sigma.
lcn_filter(k, mid, sg) ==
    IF Evaluated(k, mid)
    THEN Mk(<<k, k>>, LAMBDA i :
            LET dx == i[1] - 1 - mid
                dy == i[2] - 1 - mid
            IN  Max2(0, 2 * sg * sg - (dx * dx + dy * dy)))
    ELSE [shape |-> <<k, k>>, data |-> <<[lcn_filter |-> <<k, mid, sg>>]>>]

\* filter<W>(sigma): the kernel of the layer for a sigma.
filter(k, mid, sg) == lcn_filter(k, mid, sg)

\* A variant of lcn_compute that adds the result to what y holds.
lcn_compute_accumulates(y, x, wt, k, mid) ==
    IF Evaluated(k, mid)
    THEN LET H == x.shape[2]
             W == x.shape[3]
             S == SumSeq(wt.data, Len(wt.data))
             out == Mk(x.shape, LAMBDA i :
                       At(y, i) + S * At(x, i)
                       - SumRange(Max2(1, mid + 2 - i[2]), Min2(k, H + mid + 1 - i[2]), LAMBDA p :
                           SumRange(Max2(1, mid + 2 - i[3]), Min2(k, W + mid + 1 - i[3]), LAMBDA q :
                             At(wt, <<p, q>>)
                               * At(x, <<i[1], i[2] + p - 1 - mid, i[3] + q - 1 - mid>>))))
         IN  [shape |-> y.shape, data |-> out.data]
    ELSE [shape |-> y.shape,
          data |-> [j \in 1..Prod(x.shape) |-> [lcn_compute |-> <<x, wt, k, mid>>, at |-> j]]]

\* lcn_compute(y, x, w, K, Mid) (lcn.hpp): per channel c, every pixel of
\* x(c) minus the kernel-weighted mean of its K x K neighbourhood (the part
\* of it inside the image), written to y(c).  The mean is kept scaled by the
\* sum of the kernel, so that values stay integers.  y keeps its shape.
lcn_compute(y, x, wt, k, mid) ==
    IF Evaluated(k, mid)
    THEN LET H == x.shape[2]
             W == x.shape[3]
             S == SumSeq(wt.data, Len(wt.data))
             out == Mk(x.shape, LAMBDA i :
                       S * At(x, i)
                       - SumRange(Max2(1, mid + 2 - i[2]), Min2(k, H + mid + 1 - i[2]), LAMBDA p :
                           SumRange(Max2(1, mid + 2 - i[3]), Min2(k, W + mid + 1 - i[3]), LAMBDA q :
                             At(wt, <<p, q>>)
                               * At(x, <<i[1], i[2] + p - 1 - mid, i[3] + q - 1 - mid>>))))
         IN  [shape |-> y.shape, data |-> out.data]
    ELSE [shape |-> y.shape,
          data |-> [j \in 1..Prod(x.shape) |-> [lcn_compute |-> <<x, wt, k, mid>>, at |-> j]]]

\* transform_layer::inherit_dim(y, x), for an output y that is empty or has
\* the dimensions of x already: y has the dimensions of x afterwards.  What
\* it does to an output of other dimensions is not part of this model; the
\* callers below never pass one.
inherit_dim(y, x) ==
    CASE y = Null -> Fill(x.shape, 0)
      [] y # Null /\ y.shape = x.shape -> y

\* etl::force_temporary_dim_only(v): a temporary with the dimensions of v.
force_temporary_dim_only(v) == Fill(v.shape, 0)

\* activate_hidden(y, x) of the dyn_lcn_layer: the value of y after the call.
lcn_activate_hidden(k, mid, sg, y, x) ==
    LET y1 == inherit_dim(y, x)
        wt == filter(k, mid, sg)
    IN  lcn_compute(y1, x, wt, k, mid)

\* output(n) = sub, for the n-th (1-based) sub-view of output.
SetSub(t, n, sub) ==
    LET m == Prod(Tail(t.shape))
    IN  [shape |-> t.shape,
         data |-> [j \in DOMAIN t.data |->
                     IF j > (n - 1) * m /\ j <= n * m THEN sub.data[j - (n - 1) * m]
                     ELSE t.data[j]]]

\* A variant of the loop that reads the first sample for every output.
RECURSIVE lcn_batch_loop_first_sample(_, _, _, _, _, _)
lcn_batch_loop_first_sample(k, mid, sg, output, input, n) ==
    IF n > input.shape[1] THEN output
    ELSE lcn_batch_loop_first_sample(k, mid, sg,
            SetSub(output, n,
                   lcn_activate_hidden(k, mid, sg, Sub(output, n), Sub(input, 1))),
            input, n + 1)

\* The loop of batch_activate_hidden(output, input), from sample n on.
RECURSIVE lcn_batch_loop(_, _, _, _, _, _)
lcn_batch_loop(k, mid, sg, output, input, n) ==
    IF n > input.shape[1] THEN output
    ELSE lcn_batch_loop(k, mid, sg,
            SetSub(output, n,
                   lcn_activate_hidden(k, mid, sg, Sub(output, n), Sub(input, n))),
            input, n + 1)

\* batch_activate_hidden(output, input): the value of output after the call.
lcn_batch_activate_hidden(k, mid, sg, output, input) ==
    lcn_batch_loop(k, mid, sg, inherit_dim(output, input), input, 1)

\* batch_activate_hidden(v): the batch of output returned.
lcn_batch_activate_hidden_ret(k, mid, sg, v) ==
    lcn_batch_activate_hidden(k, mid, sg, force_temporary_dim_only(v), v)

\* The inputs the callers pass: samples [C, H, W] and batches [B, C, H, W].
LcnShapes == { <<2, 2, 3>>, <<1, 3, 3>> }
LcnBatchShapes == { <<2, 1, 3, 3>>, <<1, 1, 2, 2>> }
LcnSeeds == {0, 1}
LcnInputs == { Gen(s, seed) : s \in LcnShapes, seed \in LcnSeeds }
LcnBatches == { Gen(s, 1) : s \in LcnBatchShapes }

\* Beyond stands for every size_t above MaxKernel.
Beyond == MaxKernel + 1

\* The values K and Mid may hold before init_layer has set them: any size_t,
\* K and Mid independently of each other.
Indeterminate == (0..MaxKernel) \cup {Beyond}

\* The outcomes of a call that reads K and Mid.  With the values init_layer
\* has set, and with indeterminate values in the range evaluated here, the
\* call returns.  With other indeterminate values it returns, or it does not
\* (the K x K kernel of filter cannot be allocated, or a write goes past an
\* allocation): the process ends there.
Returns(k, mid) == IF Evaluated(k, mid) THEN {TRUE} ELSE BOOLEAN
NoReturn == "the call did not return"

\* The output buffers a caller passes for an input: the buffer it holds, when
\* that is empty or has the dimensions of the input, or a new empty one.
OutputFor(held, input) == { y0 \in {held, Null} : y0 = Null \/ y0.shape = input.shape }

LcnInit ==
    /\ K \in Indeterminate
    /\ Mid \in Indeterminate
    /\ sigma = 2
    /\ lcn_status = "ok"
    /\ lcn_arg = 0
    /\ lcn_w = Null /\ lcn_x = Null /\ lcn_y = Null
    /\ lcn_prev = FALSE
    /\ lcn_bx = Null /\ lcn_by = Null
    /\ lcn_op = "none"
    /\ lcn_calls = 0

LcnCalled(name) ==
    /\ lcn_status = "ok"
    /\ lcn_calls < LcnMaxCalls
    /\ lcn_calls' = lcn_calls + 1
    /\ lcn_op' = name

\* A variant of init_layer without the second assertion.
init_layer_no_odd_check(k) ==
    IF ~(k > 1)
    THEN lcn_status' = "The LCN kernel size must be greater than 1"
         /\ UNCHANGED <<K, Mid>>
    ELSE /\ K' = k
         /\ Mid' = k \div 2
         /\ lcn_status' = "ok"

\* init_layer(K): the two assertions, then the assignments.
init_layer(k) ==
    IF ~(k > 1)
    THEN lcn_status' = "The LCN kernel size must be greater than 1"
         /\ UNCHANGED <<K, Mid>>
    ELSE IF ~(k % 2 = 1)
    THEN lcn_status' = "The LCN kernel size must be odd"
         /\ UNCHANGED <<K, Mid>>
    ELSE /\ K' = k
         /\ Mid' = k \div 2
         /\ lcn_status' = "ok"

LcnInitLayer ==
    /\ LcnCalled("init_layer")
    /\ \E k \in 0..MaxKernel : lcn_arg' = k /\ init_layer(k)
    /\ UNCHANGED <<sigma, lcn_w, lcn_x, lcn_y, lcn_prev, lcn_bx, lcn_by>>
    /\ UNCHANGED notLcn

LcnFilter ==
    /\ LcnCalled("filter")
    /\ \E returns \in Returns(K, Mid) :
        IF returns
        THEN /\ \E sg \in 1..2 : lcn_w' = filter(K, Mid, sg)
             /\ lcn_status' = lcn_status
        ELSE /\ lcn_w' = lcn_w
             /\ lcn_status' = NoReturn
    /\ UNCHANGED <<K, Mid, sigma, lcn_arg, lcn_x, lcn_y, lcn_prev, lcn_bx, lcn_by>>
    /\ UNCHANGED notLcn

LcnActivateHidden ==
    /\ LcnCalled("activate_hidden")
    /\ \E x \in LcnInputs : \E y0 \in OutputFor(lcn_y, x) : \E returns \in Returns(K, Mid) :
        /\ lcn_x' = x
        /\ lcn_prev' = (lcn_op = "activate_hidden" /\ lcn_x = x)
        /\ IF returns
           THEN /\ lcn_y' = lcn_activate_hidden(K, Mid, sigma, y0, x)
                /\ lcn_status' = lcn_status
           ELSE /\ lcn_y' = inherit_dim(y0, x)
                /\ lcn_status' = NoReturn
    /\ UNCHANGED <<K, Mid, sigma, lcn_arg, lcn_w, lcn_bx, lcn_by>>
    /\ UNCHANGED notLcn

LcnBatchActivateHidden ==
    /\ LcnCalled("batch_activate_hidden")
    /\ \E v \in LcnBatches : \E y0 \in OutputFor(lcn_by, v) : \E returns \in Returns(K, Mid) :
        /\ lcn_bx' = v
        /\ IF returns
           THEN /\ lcn_by' = lcn_batch_activate_hidden(K, Mid, sigma, y0, v)
                /\ lcn_status' = lcn_status
           ELSE /\ lcn_by' = inherit_dim(y0, v)
                /\ lcn_status' = NoReturn
    /\ UNCHANGED <<K, Mid, sigma, lcn_arg, lcn_w, lcn_x, lcn_y, lcn_prev>>
    /\ UNCHANGED notLcn

LcnBatchActivateHiddenRet ==
    /\ LcnCalled("batch_activate_hidden")
    /\ \E v \in LcnBatches : \E returns \in Returns(K, Mid) :
        /\ lcn_bx' = v
        /\ IF returns
           THEN /\ lcn_by' = lcn_batch_activate_hidden_ret(K, Mid, sigma, v)
                /\ lcn_status' = lcn_status
           ELSE /\ lcn_by' = lcn_by
                /\ lcn_status' = NoReturn
    /\ UNCHANGED <<K, Mid, sigma, lcn_arg, lcn_w, lcn_x, lcn_y, lcn_prev>>
    /\ UNCHANGED notLcn

LcnNext ==
    \/ LcnInitLayer
    \/ LcnFilter
    \/ LcnActivateHidden
    \/ LcnBatchActivateHidden
    \/ LcnBatchActivateHiddenRet

LcnParked ==
    /\ K = 0 /\ Mid = 0 /\ sigma = 0 /\ lcn_status = "none" /\ lcn_arg = 0
    /\ lcn_w = Null /\ lcn_x = Null /\ lcn_y = Null /\ lcn_prev = FALSE
    /\ lcn_bx = Null /\ lcn_by = Null /\ lcn_op = "none" /\ lcn_calls = 0

(***************************************************************************)
(* The conv_layer and one training context, called in any order.           *)
(***************************************************************************)
Shapes ==
    { [NV1 |-> 3, NV2 |-> 2, NW1 |-> 2, NW2 |-> 1, NC |-> 2, K |-> 1, batch_size |-> 2],
      [NV1 |-> 2, NV2 |-> 2, NW1 |-> 2, NW2 |-> 2, NC |-> 1, K |-> 2, batch_size |-> 1] }

WithFunction(sh, F) ==
    [NV1 |-> sh.NV1, NV2 |-> sh.NV2, NW1 |-> sh.NW1, NW2 |-> sh.NW2, NC |-> sh.NC,
     K |-> sh.K, batch_size |-> sh.batch_size, activation_function |-> F]

ConvDescs == { WithFunction(sh, F) : sh \in Shapes, F \in Functions }

\* conv_layer(): the initializer functions fill w and b; sgd_context(layer).
ConvInit ==
    /\ desc \in ConvDescs
    /\ w = Gen(w_type(desc), 1)
    /\ b = Gen(b_type(desc), 2)
    /\ \E g \in {0, 1} : context = sgd_context(desc, g)
    /\ one_out = Fill(output_one_t(desc), 0)
    /\ back_out = Fill(input_batch_t(desc), 0)
    /\ op = "init"
    /\ calls = 0

Called(name) == calls < MaxCalls /\ calls' = calls + 1 /\ op' = name

\* The training driver copies a batch of input into the context.
ConvSetInput ==
    /\ \E s \in 0..MaxSeed :
        context' = [context EXCEPT !.input = Gen(input_batch_t(desc), s)]
    /\ Called("set_input")
    /\ UNCHANGED <<desc, w, b, one_out, back_out>>
    /\ UNCHANGED notConv

\* The training driver (the next layer, or the loss) writes the errors.
ConvSetErrors ==
    /\ \E s \in 0..MaxSeed :
        context' = [context EXCEPT !.errors = Gen(output_batch_t(desc), s)]
    /\ Called("set_errors")
    /\ UNCHANGED <<desc, w, b, one_out, back_out>>
    /\ UNCHANGED notConv

ConvActivateHidden ==
    /\ \E i \in 1..desc.batch_size :
        one_out' = activate_hidden(desc, w, b, Sub(context.input, i))
    /\ Called("activate_hidden")
    /\ UNCHANGED <<desc, w, b, context, back_out>>
    /\ UNCHANGED notConv

ConvBatchActivateHidden ==
    /\ context' = [context EXCEPT !.output =
                      batch_activate_hidden_4(desc, w, b, context.input)]
    /\ Called("batch_activate_hidden")
    /\ UNCHANGED <<desc, w, b, one_out, back_out>>
    /\ UNCHANGED notConv

ConvBatchActivateHiddenFlat ==
    /\ context' = [context EXCEPT !.output =
                      batch_activate_hidden_2(desc, w, b,
                          Reshape(context.input,
                                  <<desc.batch_size, Prod(input_one_t(desc))>>))]
    /\ Called("batch_activate_hidden")
    /\ UNCHANGED <<desc, w, b, one_out, back_out>>
    /\ UNCHANGED notConv

ConvAdaptErrors ==
    /\ context' = adapt_errors(desc, context)
    /\ Called("adapt_errors")
    /\ UNCHANGED <<desc, w, b, one_out, back_out>>
    /\ UNCHANGED notConv

ConvBackwardBatch ==
    /\ back_out' = backward_batch(desc, w, context)
    /\ Called("backward_batch")
    /\ UNCHANGED <<desc, w, b, context, one_out>>
    /\ UNCHANGED notConv

ConvComputeGradients ==
    /\ context' = compute_gradients(desc, context)
    /\ Called("compute_gradients")
    /\ UNCHANGED <<desc, w, b, one_out, back_out>>
    /\ UNCHANGED notConv

ConvNext ==
    \/ ConvSetInput
    \/ ConvSetErrors
    \/ ConvActivateHidden
    \/ ConvBatchActivateHidden
    \/ ConvBatchActivateHiddenFlat
    \/ ConvAdaptErrors
    \/ ConvBackwardBatch
    \/ ConvComputeGradients

(***************************************************************************)
(* The compile-time constants of conv_layer<Desc>, for every descriptor    *)
(* with a filter no larger than the visible units.                         *)
(***************************************************************************)
SizeDescs ==
    { d \in [NV1 : 1..MaxDim, NV2 : 1..MaxDim, NW1 : 1..MaxDim, NW2 : 1..MaxDim,
             NC : 1..MaxDim, K : 1..MaxDim] : d.NW1 <= d.NV1 /\ d.NW2 <= d.NV2 }

SizesInit ==
    /\ sz_desc \in SizeDescs
    /\ sz = Null

\* The instantiation of conv_layer<Desc>: its static constexpr members.
SizesEval ==
    /\ sz = Null
    /\ sz' = [NH1 |-> NH1(sz_desc), NH2 |-> NH2(sz_desc),
              input_size |-> input_size(sz_desc),
              output_size |-> output_size(sz_desc),
              parameters |-> parameters(sz_desc)]
    /\ UNCHANGED sz_desc
    /\ UNCHANGED notSizes

(***************************************************************************)
(* The training driver: one training step runs every layer forward in      *)
(* order, takes the errors of the last layer from the labels, then runs    *)
(* the layers in reverse order, each through adapt_errors, backward_batch  *)
(* and compute_gradients.                                                  *)
(***************************************************************************)
Layers == 1..NLayers

\* The stack: layer l reads the output of layer l - 1.
DrvDesc(l, F, bsz) ==
    [NV1 |-> NLayers + 2 - l, NV2 |-> 2, NW1 |-> 2, NW2 |-> 1,
     NC |-> IF l = 1 THEN 1 ELSE 2, K |-> IF l = NLayers THEN 1 ELSE 2,
     activation_function |-> F, batch_size |-> bsz]

DrvInit ==
    /\ \E F \in Functions, bsz \in 1..2 :
        /\ d_layers = [l \in Layers |->
                         LET d == DrvDesc(l, F, bsz)
                         IN  [desc |-> d, w |-> Gen(w_type(d), l), b |-> Gen(b_type(d), l + 1)]]
        /\ d_ctx = [l \in Layers |-> sgd_context(DrvDesc(l, F, bsz), 0)]
        /\ d_back = Fill(input_batch_t(DrvDesc(1, F, bsz)), 0)
    /\ d_pc = [at |-> "idle", layer |-> 0]
    /\ d_phase = [l \in Layers |-> "Idle"]
    /\ d_step = 0

\* A variant of the driver that propagates the errors before adapting them.
DrvAfter_backward_first(pc) ==
    CASE pc.at = "idle"      -> [at |-> "forward", layer |-> 1]
      [] pc.at = "forward"   -> IF pc.layer < NLayers
                                THEN [at |-> "forward", layer |-> pc.layer + 1]
                                ELSE [at |-> "errors", layer |-> NLayers]
      [] pc.at = "errors"    -> [at |-> "backward", layer |-> NLayers]
      [] pc.at = "backward"  -> [at |-> "adapt", layer |-> pc.layer]
      [] pc.at = "adapt"     -> [at |-> "gradients", layer |-> pc.layer]
      [] pc.at = "gradients" -> IF pc.layer > 1
                                THEN [at |-> "backward", layer |-> pc.layer - 1]
                                ELSE [at |-> "end", layer |-> 0]
      [] pc.at = "end"       -> [at |-> "idle", layer |-> 0]

\* The driver's position after the operation at pc.
DrvAfter(pc) ==
    CASE pc.at = "idle"      -> [at |-> "forward", layer |-> 1]
      [] pc.at = "forward"   -> IF pc.layer < NLayers
                                THEN [at |-> "forward", layer |-> pc.layer + 1]
                                ELSE [at |-> "errors", layer |-> NLayers]
      [] pc.at = "errors"    -> [at |-> "adapt", layer |-> NLayers]
      [] pc.at = "adapt"     -> [at |-> "backward", layer |-> pc.layer]
      [] pc.at = "backward"  -> [at |-> "gradients", layer |-> pc.layer]
      [] pc.at = "gradients" -> IF pc.layer > 1
                                THEN [at |-> "adapt", layer |-> pc.layer - 1]
                                ELSE [at |-> "end", layer |-> 0]
      [] pc.at = "end"       -> [at |-> "idle", layer |-> 0]

\* A training step starts: the driver copies a batch into the first context.
DrvStart ==
    /\ d_pc.at = "idle"
    /\ d_step < MaxSteps
    /\ d_step' = d_step + 1
    /\ \E s \in 0..MaxSeed :
        d_ctx' = [d_ctx EXCEPT ![1].input = Gen(input_batch_t(d_layers[1].desc), s)]
    /\ d_pc' = DrvAfter(d_pc)
    /\ UNCHANGED <<d_layers, d_phase, d_back>>
    /\ UNCHANGED notDrv

\* Forward: batch_activate_hidden(context.output, context.input) of the layer;
\* its output is the input of the next layer.
DrvForward ==
    /\ d_pc.at = "forward"
    /\ LET l == d_pc.layer
           y == batch_activate_hidden_4(d_layers[l].desc, d_layers[l].w, d_layers[l].b,
                                        d_ctx[l].input)
       IN  /\ d_ctx' = [n \in Layers |->
                          IF n = l THEN [d_ctx[n] EXCEPT !.output = y]
                          ELSE IF n = l + 1 THEN [d_ctx[n] EXCEPT !.input = y]
                          ELSE d_ctx[n]]
           /\ d_phase' = [d_phase EXCEPT ![l] = "Forward"]
    /\ d_pc' = DrvAfter(d_pc)
    /\ UNCHANGED <<d_layers, d_back, d_step>>
    /\ UNCHANGED notDrv

\* The errors of the last layer: the labels minus its output.
DrvErrors ==
    /\ d_pc.at = "errors"
    /\ \E s \in 0..MaxSeed :
        LET c == d_ctx[NLayers]
            labels == Gen(c.output.shape, s)
        IN  d_ctx' = [d_ctx EXCEPT ![NLayers].errors =
                        [shape |-> c.output.shape,
                         data |-> [n \in DOMAIN c.output.data |->
                                     labels.data[n] - c.output.data[n]]]]
    /\ d_phase' = [d_phase EXCEPT ![NLayers] = "ErrorsReceived"]
    /\ d_pc' = DrvAfter(d_pc)
    /\ UNCHANGED <<d_layers, d_back, d_step>>
    /\ UNCHANGED notDrv

DrvAdaptErrors ==
    /\ d_pc.at = "adapt"
    /\ LET l == d_pc.layer
       IN  /\ d_ctx' = [d_ctx EXCEPT ![l] = adapt_errors(d_layers[l].desc, d_ctx[l])]
           /\ d_phase' = [d_phase EXCEPT ![l] = "AdaptErrors"]
    /\ d_pc' = DrvAfter(d_pc)
    /\ UNCHANGED <<d_layers, d_back, d_step>>
    /\ UNCHANGED notDrv

\* backward_batch(previous context's errors, context): the previous layer
\* receives its errors; the first layer writes into the driver's buffer.
DrvBackwardBatch ==
    /\ d_pc.at = "backward"
    /\ LET l == d_pc.layer
           e == backward_batch(d_layers[l].desc, d_layers[l].w, d_ctx[l])
       IN  IF l > 1
           THEN /\ d_ctx' = [d_ctx EXCEPT ![l - 1].errors = e]
                /\ d_phase' = [d_phase EXCEPT ![l] = "BackwardBatch",
                                              ![l - 1] = "ErrorsReceived"]
                /\ UNCHANGED d_back
           ELSE /\ d_back' = e
                /\ d_phase' = [d_phase EXCEPT ![l] = "BackwardBatch"]
                /\ UNCHANGED d_ctx
    /\ d_pc' = DrvAfter(d_pc)
    /\ UNCHANGED <<d_layers, d_step>>
    /\ UNCHANGED notDrv

DrvComputeGradients ==
    /\ d_pc.at = "gradients"
    /\ LET l == d_pc.layer
       IN  /\ d_ctx' = [d_ctx EXCEPT ![l] = compute_gradients(d_layers[l].desc, d_ctx[l])]
           /\ d_phase' = [d_phase EXCEPT ![l] = "GradientsComputed"]
    /\ d_pc' = DrvAfter(d_pc)
    /\ UNCHANGED <<d_layers, d_back, d_step>>
    /\ UNCHANGED notDrv

\* The step ends: the gradients go to the optimizer and every layer is idle.
DrvEnd ==
    /\ d_pc.at = "end"
    /\ d_phase' = [l \in Layers |-> "Idle"]
    /\ d_pc' = DrvAfter(d_pc)
    /\ UNCHANGED <<d_layers, d_ctx, d_back, d_step>>
    /\ UNCHANGED notDrv

DrvNext ==
    \/ DrvStart
    \/ DrvForward
    \/ DrvErrors
    \/ DrvAdaptErrors
    \/ DrvBackwardBatch
    \/ DrvComputeGradients
    \/ DrvEnd

DrvParked ==
    /\ d_layers = Null /\ d_ctx = Null /\ d_pc = Null /\ d_phase = Null
    /\ d_back = Null /\ d_step = 0

\* The variables of a part of the model that a specification does not use.
ConvParked ==
    /\ desc = Null /\ w = Null /\ b = Null /\ context = Null
    /\ one_out = Null /\ back_out = Null /\ op = "none" /\ calls = 0

SizesParked == sz_desc = Null /\ sz = Null

Init == ConvInit /\ SizesParked /\ LcnParked /\ DrvParked
Next == ConvNext
Spec == Init /\ [][Next]_vars

SizesSpecInit == SizesInit /\ ConvParked /\ LcnParked /\ DrvParked
SizesSpecNext == SizesEval
SizesSpec == SizesSpecInit /\ [][SizesSpecNext]_vars

LcnSpecInit == LcnInit /\ ConvParked /\ SizesParked /\ DrvParked
LcnSpecNext == LcnNext
LcnSpec == LcnSpecInit /\ [][LcnSpecNext]_vars

DrvSpecInit == DrvInit /\ ConvParked /\ SizesParked /\ LcnParked
DrvSpecNext == DrvNext
DrvSpec == DrvSpecInit /\ [][DrvSpecNext]_vars

(***************************************************************************)
(* Properties of conv_layer.                                               *)
(***************************************************************************)

\* C2: adapt_errors leaves context.errors unchanged when the activation
\* function is IDENTITY; for any other activation function every element of
\* context.errors after the call is its value before the call times the
\* activation derivative at the same element of context.output.
AdaptErrorsScalesByDerivative ==
    [][op' = "adapt_errors" =>
        IF desc.activation_function = "IDENTITY"
        THEN context'.errors = context.errors
        ELSE /\ context'.errors.shape = context.errors.shape
             /\ DOMAIN context'.errors.data = DOMAIN context.errors.data
             /\ \A n \in DOMAIN context.errors.data :
                    context'.errors.data[n] =
                        context.errors.data[n]
                          * f_derivative(desc.activation_function, context.output).data[n]
    ]_vars

\* adapt_errors has run with a derivative that is 0 at some elements and 1 at
\* others, on errors that the call has zeroed in part.
AdaptErrorsWitness ==
    /\ op = "adapt_errors"
    /\ desc.activation_function = "RELU"
    /\ \E n \in DOMAIN context.output.data : context.output.data[n] > 0
    /\ \E n \in DOMAIN context.output.data : context.output.data[n] <= 0
    /\ \E n \in DOMAIN context.errors.data : context.errors.data[n] # 0
    /\ \A n \in DOMAIN context.errors.data :
            context.output.data[n] <= 0 => context.errors.data[n] = 0

\* C7: w_grad and w_inc have the weight shape [K, NC, NW1, NW2], b_grad and
\* b_inc the bias shape [K], whatever the batch size and after any sequence
\* of calls.
GradientShapesMatchParameters ==
    /\ context.w_grad.shape = <<desc.K, desc.NC, desc.NW1, desc.NW2>>
    /\ context.w_grad.shape = w.shape
    /\ context.w_inc.shape = w.shape
    /\ context.b_grad.shape = <<desc.K>>
    /\ context.b_grad.shape = b.shape
    /\ context.b_inc.shape = b.shape
    /\ Len(context.w_grad.data) = Len(w.data)
    /\ Len(context.b_grad.data) = Len(b.data)

\* compute_gradients has run, on a batch of more than one sample, with errors
\* that give a nonzero bias gradient.
GradientShapesWitness ==
    /\ op = "compute_gradients"
    /\ desc.batch_size > 1
    /\ context.b_grad # Fill(b_type(desc), 0)
    /\ context.w_grad = convolution_backward_filter(context.input, context.errors)

\* C10: each training operation writes only its target.  adapt_errors changes
\* at most context.errors; backward_batch changes only the caller's output
\* buffer; compute_gradients changes only w_grad and b_grad; no layer
\* operation changes w or b.
OnlyField(c1, c2, fields) ==
    \A f \in DOMAIN c1 : f \notin fields => c2[f] = c1[f]

LayerOps ==
    {"activate_hidden", "batch_activate_hidden", "adapt_errors", "backward_batch",
     "compute_gradients"}

OperationsWriteOnlyTheirTarget ==
    [][/\ op' = "adapt_errors" =>
            /\ OnlyField(context, context', {"errors"})
            /\ UNCHANGED <<one_out, back_out>>
       /\ op' = "backward_batch" =>
            /\ context' = context
            /\ UNCHANGED one_out
       /\ op' = "compute_gradients" =>
            /\ OnlyField(context, context', {"w_grad", "b_grad"})
            /\ UNCHANGED <<one_out, back_out>>
       /\ op' \in LayerOps => UNCHANGED <<w, b, desc>>
    ]_vars

\* compute_gradients has written nonzero gradients while the increments, set
\* to zero at construction, are still zero.
WriteTargetWitness ==
    /\ op = "compute_gradients"
    /\ context.w_grad # Fill(w_type(desc), 0)
    /\ context.b_grad # Fill(b_type(desc), 0)
    /\ context.w_inc = Fill(w_type(desc), 0)
    /\ context.b_inc = Fill(b_type(desc), 0)
    /\ context.errors # Fill(output_batch_t(desc), 0)

(***************************************************************************)
(* Properties of dyn_lcn_layer.                                            *)
(***************************************************************************)

\* C1: init_layer(K) succeeds for every odd K > 1 and then the field K is the
\* argument and Mid is K / 2 (integer division); it fails with an assertion
\* for every even K and every K <= 1.
InitLayerAcceptsOddKernels ==
    lcn_op = "init_layer" =>
        IF lcn_arg > 1 /\ lcn_arg % 2 = 1
        THEN /\ lcn_status = "ok"
             /\ K = lcn_arg
             /\ Mid = lcn_arg \div 2
             /\ 2 * Mid + 1 = K
        ELSE lcn_status # "ok"

\* init_layer(3) has succeeded, and a later init_layer of an even size has
\* failed.
InitLayerWitness ==
    /\ lcn_op = "init_layer"
    /\ lcn_calls = 2
    /\ K = 3 /\ Mid = 1
    /\ lcn_arg > 1 /\ lcn_arg % 2 = 0
    /\ lcn_status = "The LCN kernel size must be odd"

\* C4: the batched activation is the per-sample activation applied to every
\* sample on its own: sample i of the output of a batch_activate_hidden that
\* has returned is what activate_hidden gives for sample i of the input alone.
BatchEqualsPerSample ==
    (lcn_op = "batch_activate_hidden" /\ lcn_status = "ok") =>
        /\ lcn_by.shape[1] = lcn_bx.shape[1]
        /\ \A i \in 1..lcn_bx.shape[1] :
              Sub(lcn_by, i) = lcn_activate_hidden(K, Mid, sigma, Null, Sub(lcn_bx, i))

\* An initialized layer has activated a batch of two samples whose outputs
\* differ.
BatchWitness ==
    /\ lcn_op = "batch_activate_hidden"
    /\ lcn_status = "ok"
    /\ lcn_arg = 3
    /\ K = 3 /\ Mid = 1
    /\ lcn_bx.shape[1] = 2
    /\ Sub(lcn_by, 1) # Sub(lcn_by, 2)
    /\ Sub(lcn_by, 2) # Sub(lcn_bx, 2)

StepOrder ==
    { <<"Idle", "Forward">>, <<"Forward", "ErrorsReceived">>,
      <<"ErrorsReceived", "AdaptErrors">>, <<"AdaptErrors", "BackwardBatch">>,
      <<"BackwardBatch", "GradientsComputed">>, <<"GradientsComputed", "Idle">> }

\* C3: within a training step every layer goes Idle, Forward, ErrorsReceived,
\* adapt_errors, backward_batch, compute_gradients, Idle, in this order: no
\* backward_batch or compute_gradients before the layer's forward step, and no
\* backward_batch before the adapt_errors that produces the errors it reads.
TrainingStepOrder ==
    [][\A l \in Layers :
          d_phase'[l] # d_phase[l] => <<d_phase[l], d_phase'[l]>> \in StepOrder
    ]_vars

\* In the second training step the last layer has computed its gradients and
\* the first layer has received the errors its backward_batch produced.
TrainingStepWitness ==
    /\ d_step = 2
    /\ d_phase[NLayers] = "GradientsComputed"
    /\ d_phase[1] = "ErrorsReceived"
    /\ d_ctx[1].errors = backward_batch(d_layers[NLayers].desc, d_layers[NLayers].w,
                                        d_ctx[NLayers])
    /\ d_ctx[1].errors # Fill(d_ctx[1].errors.shape, 0)

(***************************************************************************)
(* Properties of the compile-time constants.                               *)
(***************************************************************************)

\* C6: NH1 = NV1 - NW1 + 1, NH2 = NV2 - NW2 + 1, output_size() is
\* K * NH1 * NH2 and input_size() is NC * NV1 * NV2, for every descriptor
\* whose filter is no larger than its visible units.
SizesExact ==
    sz # Null =>
        /\ sz.NH1 + sz_desc.NW1 = sz_desc.NV1 + 1
        /\ sz.NH2 + sz_desc.NW2 = sz_desc.NV2 + 1
        /\ sz.NH1 >= 1 /\ sz.NH2 >= 1
        /\ sz.output_size =
              sz_desc.K * (sz_desc.NV1 - sz_desc.NW1 + 1)
                        * (sz_desc.NV2 - sz_desc.NW2 + 1)
        /\ sz.output_size = sz_desc.K * sz.NH1 * sz.NH2
        /\ sz.input_size = sz_desc.NC * sz_desc.NV1 * sz_desc.NV2

\* The constants of a descriptor with a filter smaller than the visible units
\* on one axis and several channels and filters have been evaluated.
SizesWitness ==
    /\ sz # Null
    /\ sz_desc.NW1 > 1 /\ sz_desc.NW1 < sz_desc.NV1
    /\ sz_desc.NC > 1 /\ sz_desc.K > 1
    /\ sz.NH1 > 1
    /\ sz.output_size = sz_desc.K * sz.NH1 * sz.NH2

\* C9: parameters() is the number of trainable parameters of the layer: the
\* number of elements of w, of shape [K, NC, NW1, NW2], plus that of b, of
\* shape [K].
ParametersCountsTrainable ==
    sz # Null => sz.parameters = Prod(w_type(sz_desc)) + Prod(b_type(sz_desc))


====
